---- MODULE Spec2Model ----
(***************************************************************************)
(* jvn::unordered_map (src/map.h): an open-addressing hash map using the   *)
(* Robin Hood algorithm.  One info byte per slot holds the distance of the *)
(* resident from its hash position, uint8_t(-1) marks a free slot, and one *)
(* extra info byte after the last slot marks end().                        *)
(*                                                                         *)
(* The map is single-threaded: every public member function is one atomic  *)
(* step.  Iterators are positions into the info array (operator== of Iter  *)
(* compares m_info_ptr only); position m_capacity is end().                *)
(***************************************************************************)
EXTENDS Integers, Sequences, FiniteSets, TLC

\* ---- bounds of the model -------------------------------------------------
MaxKey == 3            \* keys are 1..MaxKey
MaxCapacity == 4       \* no table grows past this capacity
MaxOverflow == 1       \* calls are made while m_size <= m_capacity + MaxOverflow

\* ---- program constants ---------------------------------------------------
EMPTY == 255           \* uint8_t(-1), the info byte of a free slot
InfoValues == 256      \* number of values of an uint8_t info byte
END_INFO == 0          \* info byte written at end(m_info_bucket)
SizeBits == 64         \* width of size_type

\* mapped values: mapped_type() and one other value
Values == {0, 1}

\* LOAD_FACTOR is a float; the model keeps it as an exact fraction.  The
\* fractions used are dyadic, so float arithmetic on them is exact.
LoadFactors ==
    { [num |-> 1, den |-> 4], [num |-> 3, den |-> 4], [num |-> 1, den |-> 1] }

VARIABLES
    LOAD_FACTOR,        \* const float LOAD_FACTOR
    INITIAL_CAPACITY,   \* const size_type INITIAL_CAPACITY
    GROWTH_FACTOR,      \* const size_type GROWTH_FACTOR
    hasher,             \* the Hasher: a deterministic function of the key
    m_capacity,
    m_capacity_dec,
    m_max_elems,
    m_size,
    m_info_bucket,      \* info bytes, positions 0..m_capacity
    m_bucket,           \* key-value pairs, positions 0..m_capacity-1
    call                \* the last member function call and what it returned

\* the keys of the run: those the hasher is given for
Keys == DOMAIN hasher

config == <<LOAD_FACTOR, INITIAL_CAPACITY, GROWTH_FACTOR, hasher>>
table == <<m_capacity, m_capacity_dec, m_max_elems, m_size, m_info_bucket, m_bucket>>
vars == <<config, table, call>>

\* ---- integer helpers -----------------------------------------------------
RECURSIVE BitOr(_, _)
BitOr(a, b) ==
    IF a = 0 THEN b
    ELSE IF b = 0 THEN a
    ELSE (IF a % 2 = 1 \/ b % 2 = 1 THEN 1 ELSE 0) + 2 * BitOr(a \div 2, b \div 2)

RECURSIVE BitAnd(_, _)
BitAnd(a, b) ==
    IF a = 0 \/ b = 0 THEN 0
    ELSE (IF a % 2 = 1 /\ b % 2 = 1 THEN 1 ELSE 0) + 2 * BitAnd(a \div 2, b \div 2)

RECURSIVE ShiftRight(_, _)
ShiftRight(a, n) == IF n = 0 THEN a ELSE ShiftRight(a \div 2, n - 1)

\* closestPowerOfTwo: the first equal or bigger power of two, at least 2
closestPowerOfTwo(num) ==
    IF num < 2 THEN 2
    ELSE LET n0 == num - 1
             n1 == BitOr(n0, ShiftRight(n0, 1))
             n2 == BitOr(n1, ShiftRight(n1, 2))
             n3 == BitOr(n2, ShiftRight(n2, 4))
             n4 == BitOr(n3, ShiftRight(n3, 8))
             n5 == BitOr(n4, ShiftRight(n4, 16))
         IN  n5 + 1

\* size_type is 64 bits wide, more than the integers of the model checker
\* hold.  On the whole range of size_type a number is the set of the
\* positions of its one-bits, and closestPowerOfTwo is computed on that.
SizeBitPositions == 0..(SizeBits - 1)

LowestOf(bits) == CHOOSE b \in bits : \A c \in bits : b <= c

\* num-- : the lowest one-bit is cleared and the bits below it are set;
\* 0 wraps to the largest value
DecBits(bits) ==
    IF bits = {} THEN SizeBitPositions
    ELSE LET low == LowestOf(bits) IN (bits \ {low}) \cup 0..(low - 1)

\* num++ : the lowest zero-bit is set and the bits below it are cleared;
\* the largest value wraps to 0
IncBits(bits) ==
    LET zeros == SizeBitPositions \ bits
    IN  IF zeros = {} THEN {}
        ELSE LET low == LowestOf(zeros) IN (bits \ 0..(low - 1)) \cup {low}

\* num >> n
ShrBits(bits, n) == { b - n : b \in { c \in bits : c >= n } }

\* num |= num >> n
OrShrBits(bits, n) == bits \cup ShrBits(bits, n)

\* closestPowerOfTwo on the whole range of size_type
closestPowerOfTwoBits(bits) ==
    IF bits \subseteq {0} THEN {1}
    ELSE IncBits(OrShrBits(OrShrBits(OrShrBits(OrShrBits(OrShrBits(
             DecBits(bits), 1), 2), 4), 8), 16))

\* size_type(capacity * LOAD_FACTOR): the product truncated toward zero
MaxElems(capacity, load_factor) == (capacity * load_factor.num) \div load_factor.den

\* ---- the object ----------------------------------------------------------
\* value_type: pair<Kt, Vt>
value_type(k, v) == [first |-> k, second |-> v]

\* storage of a slot that holds no constructed pair
Raw == [first |-> 0, second |-> 0]

\* The members of *this as one record, so that the member functions below are
\* operators on it.
This ==
    [ m_capacity     |-> m_capacity,
      m_capacity_dec |-> m_capacity_dec,
      m_max_elems    |-> m_max_elems,
      m_size         |-> m_size,
      m_info_bucket  |-> m_info_bucket,
      m_bucket       |-> m_bucket ]

\* A buffer of `capacity` free slots followed by the end marker, as the
\* constructor and grow() set it up.
FreshInfo(capacity) == [p \in 0..capacity |-> IF p = capacity THEN END_INFO ELSE EMPTY]
FreshBucket(capacity) == [p \in 0..(capacity - 1) |-> Raw]

\* unordered_map(load_factor, inital_capacity, growth_factor)
Construct(load_factor, inital_capacity, growth_factor) ==
    LET cap == closestPowerOfTwo(inital_capacity)
    IN  [ LOAD_FACTOR      |-> load_factor,
          INITIAL_CAPACITY |-> cap,
          GROWTH_FACTOR    |-> closestPowerOfTwo(growth_factor),
          m_capacity       |-> cap,
          m_capacity_dec   |-> cap - 1,
          m_max_elems      |-> MaxElems(cap, load_factor),
          m_size           |-> 0,
          m_info_bucket    |-> FreshInfo(cap),
          m_bucket         |-> FreshBucket(cap) ]

\* end(m_info_bucket) as a position
end_ptr(t) == t.m_capacity

\* hashAndTrim: hasher{}(key) & m_capacity_dec
hashAndTrim(t, key) == BitAnd(hasher[key], t.m_capacity_dec)

\* advance_iter followed by the "check iterator bounds" wrap of the probe loops
NextSlot(t, p) == IF p + 1 = end_ptr(t) THEN 0 ELSE p + 1

\* ++id on an uint8_t
IncInfo(id) == (id + 1) % InfoValues

\* ---- Iter ----------------------------------------------------------------
\* The skip loop of Iter::operator++: while the info byte is uint8_t(-1), go
\* on.  A position past end() lies outside the allocation: the loop reading
\* there is undefined, and the operator reports that position instead of
\* reading.
RECURSIVE SkipEmpty(_, _)
SkipEmpty(t, p) ==
    IF p > end_ptr(t) THEN p
    ELSE IF t.m_info_bucket[p] = EMPTY THEN SkipEmpty(t, p + 1)
    ELSE p

\* Iter::operator++
IterInc(t, p) == SkipEmpty(t, p + 1)

\* Iter::Iter(info_ptr, value_ptr)
Iter(t, p) == IF t.m_info_bucket[p] = EMPTY THEN IterInc(t, p) ELSE p

begin(t) == Iter(t, 0)
end(t) == Iter(t, end_ptr(t))

\* ---- find ----------------------------------------------------------------
\* find stops with "key not found": free slot, or a resident closer to its
\* hash position than the key would be
FindStops(info, id) == info = EMPTY \/ info < id

\* a fault for testing C4: a find that takes any resident at the right
\* distance for the key
FindFound_AnyKey(info, id, first, key) == info = id

\* find has found the key: the resident is at the distance of the probe and
\* its key compares equal
FindFound(info, id, first, key) == info = id /\ first = key

\* One pass through the body of the while (true) of find.  s holds the locals
\* id and p (iter_info, iter_bucket); done is set when the pass returned, and
\* first is then the returned iterator.
FindStep(t, key, s) ==
    IF FindStops(t.m_info_bucket[s.p], s.id)
    THEN [s EXCEPT !.done = TRUE, !.first = end(t)]
    ELSE IF FindFound(t.m_info_bucket[s.p], s.id, t.m_bucket[s.p].first, key)
    THEN [s EXCEPT !.done = TRUE, !.first = Iter(t, s.p)]
    ELSE [s EXCEPT !.id = IncInfo(s.id), !.p = NextSlot(t, s.p)]

\* at most n passes, none after the pass that returned; passes counts them
RECURSIVE FindRun(_, _, _, _)
FindRun(t, key, s, n) ==
    IF s.done THEN s
    ELSE IF n = 1 THEN [FindStep(t, key, s) EXCEPT !.passes = @ + 1]
    ELSE FindRun(t, key, FindRun(t, key, s, n \div 2), n - (n \div 2))

\* the while (true): passes until one returns
RECURSIVE FindLoop(_, _, _, _)
FindLoop(t, key, s, n) ==
    LET r == FindRun(t, key, s, n)
    IN  IF r.done THEN r ELSE FindLoop(t, key, r, 2 * n)

\* the locals of find before the first pass
FindStart(t, key) ==
    [id |-> 0, p |-> hashAndTrim(t, key), done |-> FALSE, first |-> 0,
     passes |-> 0]

find(t, key) == FindLoop(t, key, FindStart(t, key), t.m_capacity).first

\* the number of slots find(key) examines: one per pass
FindPasses(t, key) == FindLoop(t, key, FindStart(t, key), t.m_capacity).passes

\* ---- insert and grow -----------------------------------------------------
\* a fault for testing C6: an insert that never takes a resident's slot
Robs_Never(info, id) == FALSE

\* "Swap rich with the poor": the resident is closer to its hash position
\* than the pair being inserted
Robs(info, id) == info < id

\* a fault for testing C8: an insert that never grows the table
GrowthDue_Never(t) == FALSE

\* m_size == m_max_elems after a pair was placed
GrowthDue(t) == t.m_size = t.m_max_elems

\* capacity of the buffer grow() allocates
GrownCapacity(t) == t.m_capacity * GROWTH_FACTOR

\* the slots of the buffer that hold a constructed pair
Live(t) == { p \in 0..(t.m_capacity - 1) : t.m_bucket[p] # Raw }

\* the members after grow() allocated the buffer of the grown capacity
FreshTable(t) ==
    LET cap == GrownCapacity(t)
    IN  [ m_capacity     |-> cap,
          m_capacity_dec |-> cap - 1,
          m_max_elems    |-> MaxElems(cap, LOAD_FACTOR),
          m_size         |-> 0,
          m_info_bucket  |-> FreshInfo(cap),
          m_bucket       |-> FreshBucket(cap) ]

\* a fault for testing C13: a grow() that inserts none of the previous pairs
Rehash_Dropping(t, prev, i) == t

RECURSIVE InsertStep(_, _)
RECURSIVE InsertRun(_, _, _)
RECURSIVE InsertLoop(_, _, _)
RECURSIVE insert(_, _)
RECURSIVE grow(_)
RECURSIVE Rehash(_, _, _)
RECURSIVE RehashBounded(_, _, _)
RECURSIVE RehashUndestroyed(_, _, _)

\* One pass through the body of the while (true) of insert.  s holds the
\* table t, the object kvp that key_value_pair refers to, and the locals id
\* and p (iter_info, iter_bucket); key is the copy of the original key.  done
\* is set when the pass returned, and (first, second) is then the returned
\* pair.  bounded tells whether every loop run by the calls this pass made,
\* the inserts of grow() and the closing find, examined at most as many
\* slots as the table it ran on has.  undestroyed counts the constructed
\* pairs in the buffers that the grow() of this pass, and the inserts it
\* made, deallocated: grow() moves from the pairs of the previous buffer and
\* calls no destructor before it deallocates the buffer.
InsertStep(key, s) ==
    IF s.t.m_info_bucket[s.p] = EMPTY
    THEN LET placed == [s.t EXCEPT !.m_info_bucket[s.p] = s.id,
                                   !.m_bucket[s.p] = s.kvp,
                                   !.m_size = @ + 1]
             grown == IF GrowthDue(placed) THEN grow(placed) ELSE placed
         IN  [s EXCEPT !.t = grown, !.done = TRUE,
                       !.first = find(grown, key), !.second = TRUE,
                       !.bounded =
                           /\ GrowthDue(placed)
                                 => RehashBounded(FreshTable(placed), placed, 0)
                           /\ FindPasses(grown, key) <= grown.m_capacity,
                       !.undestroyed =
                           IF GrowthDue(placed)
                           THEN Cardinality(Live(placed))
                                  + RehashUndestroyed(FreshTable(placed), placed, 0)
                           ELSE 0]
    ELSE IF s.t.m_info_bucket[s.p] = s.id /\ s.t.m_bucket[s.p].first = s.kvp.first
    THEN [s EXCEPT !.done = TRUE, !.first = Iter(s.t, s.p), !.second = FALSE]
    ELSE IF Robs(s.t.m_info_bucket[s.p], s.id)
    THEN [s EXCEPT !.t = [s.t EXCEPT !.m_info_bucket[s.p] = s.id,
                                     !.m_bucket[s.p] = s.kvp],
                   !.kvp = s.t.m_bucket[s.p],
                   !.id = IncInfo(s.t.m_info_bucket[s.p]),
                   !.p = NextSlot(s.t, s.p)]
    ELSE [s EXCEPT !.id = IncInfo(s.id), !.p = NextSlot(s.t, s.p)]

\* at most n passes, none after the pass that returned; passes counts them
InsertRun(key, s, n) ==
    IF s.done THEN s
    ELSE IF n = 1 THEN [InsertStep(key, s) EXCEPT !.passes = @ + 1]
    ELSE InsertRun(key, InsertRun(key, s, n \div 2), n - (n \div 2))

\* the while (true): passes until one returns
InsertLoop(key, s, n) ==
    LET r == InsertRun(key, s, n)
    IN  IF r.done THEN r ELSE InsertLoop(key, r, 2 * n)

\* insert(key_value_pair): the table afterwards, the returned pair (first,
\* second), arg, the object key_value_pair refers to when insert returns,
\* passes, the number of slots the while (true) examined, and bounded: no
\* loop of the call examined more slots than its table has
insert(t, key_value_pair) ==
    LET r == InsertLoop(key_value_pair.first,
                        [t |-> t, kvp |-> key_value_pair, id |-> 0,
                         p |-> hashAndTrim(t, key_value_pair.first),
                         done |-> FALSE, first |-> 0, second |-> FALSE,
                         passes |-> 0, bounded |-> TRUE, undestroyed |-> 0],
                        t.m_capacity)
    IN  [t |-> r.t, first |-> r.first, second |-> r.second, arg |-> r.kvp,
         passes |-> r.passes,
         bounded |-> r.bounded /\ r.passes <= t.m_capacity,
         undestroyed |-> r.undestroyed]

\* grow(): a fresh buffer of the grown capacity, then every pair of the
\* previous buffer is inserted again, in the order of the previous buffer
grow(t) == Rehash(FreshTable(t), t, 0)

\* the "rehash and insert" loop of grow(); prev is the previous buffer
Rehash(t, prev, i) ==
    IF i = prev.m_capacity THEN t
    ELSE IF prev.m_info_bucket[i] # EMPTY
    THEN Rehash(insert(t, prev.m_bucket[i]).t, prev, i + 1)
    ELSE Rehash(t, prev, i + 1)

\* the "rehash and insert" loop once more, for the work of its inserts: every
\* loop they ran examined at most as many slots as the table has
RehashBounded(t, prev, i) ==
    IF i = prev.m_capacity THEN TRUE
    ELSE IF prev.m_info_bucket[i] # EMPTY
    THEN /\ insert(t, prev.m_bucket[i]).bounded
         /\ RehashBounded(insert(t, prev.m_bucket[i]).t, prev, i + 1)
    ELSE RehashBounded(t, prev, i + 1)

\* the "rehash and insert" loop once more, for the buffers its inserts
\* deallocated: the constructed pairs those buffers held
RehashUndestroyed(t, prev, i) ==
    IF i = prev.m_capacity THEN 0
    ELSE IF prev.m_info_bucket[i] # EMPTY
    THEN insert(t, prev.m_bucket[i]).undestroyed
           + RehashUndestroyed(insert(t, prev.m_bucket[i]).t, prev, i + 1)
    ELSE RehashUndestroyed(t, prev, i + 1)

\* ---- erase ---------------------------------------------------------------
\* the loop condition of erase: the next pair can be moved one slot back
Shifts(info) == info # 0 /\ info # EMPTY

\* a fault for testing C5: an erase that moves a pair back and keeps its
\* info byte
DecInfo_Kept(id) == id

\* --(*iter_prev_info) on an uint8_t
DecInfo(id) == (id + InfoValues - 1) % InfoValues

\* One pass through the while loop of erase.  s holds the table t and the
\* positions prev (iter_prev_info) and cur (iter_info); done is set when the
\* loop condition failed.
ShiftStep(s) ==
    IF Shifts(s.t.m_info_bucket[s.cur])
    THEN [s EXCEPT !.t = [s.t EXCEPT
                            !.m_info_bucket[s.prev] = DecInfo(s.t.m_info_bucket[s.cur]),
                            !.m_info_bucket[s.cur] = s.t.m_info_bucket[s.prev],
                            !.m_bucket[s.prev] = s.t.m_bucket[s.cur],
                            !.m_bucket[s.cur] = s.t.m_bucket[s.prev]],
                   !.prev = NextSlot(s.t, s.prev),
                   !.cur = NextSlot(s.t, s.cur)]
    ELSE [s EXCEPT !.done = TRUE]

\* passes counts the evaluations of the loop condition
RECURSIVE ShiftRun(_, _)
ShiftRun(s, n) ==
    IF s.done THEN s
    ELSE IF n = 1 THEN [ShiftStep(s) EXCEPT !.passes = @ + 1]
    ELSE ShiftRun(ShiftRun(s, n \div 2), n - (n \div 2))

RECURSIVE ShiftLoop(_, _)
ShiftLoop(s, n) ==
    LET r == ShiftRun(s, n)
    IN  IF r.done THEN r ELSE ShiftLoop(r, 2 * n)

\* a fault for testing C14: an erase that frees the slot after the one the
\* shift ended on
Destroy_Next(t, p) ==
    [t EXCEPT !.m_info_bucket[NextSlot(t, p)] = EMPTY,
              !.m_bucket[NextSlot(t, p)] = Raw, !.m_size = @ - 1]

\* "Destroy the element": the slot the shift ended on is freed
Destroy(t, p) ==
    [t EXCEPT !.m_info_bucket[p] = EMPTY, !.m_bucket[p] = Raw, !.m_size = @ - 1]

\* erase(key): the table afterwards, the returned count, and passes, the
\* number of slots the while loop examined
erase(t, key) ==
    LET iter == find(t, key)
    IN  IF iter = end(t)
        THEN [t |-> t, count |-> 0, passes |-> 0]
        ELSE LET r == ShiftLoop([t |-> t, prev |-> iter, cur |-> NextSlot(t, iter),
                                 done |-> FALSE, passes |-> 0], t.m_capacity)
             IN  [t |-> Destroy(r.t, r.prev), count |-> 1, passes |-> r.passes]

\* size() and empty()
size(t) == t.m_size
empty(t) == t.m_size = 0

\* ---- the state machine ---------------------------------------------------
\* the capacities the tables of Spec have: the powers of two up to MaxCapacity
Capacities == { c \in 2..MaxCapacity : closestPowerOfTwo(c) = c }

LargestCapacity == CHOOSE c \in Capacities : \A d \in Capacities : d <= c

\* The largest m_capacity_dec a table constructed as c can come to have when
\* it grows up to the capacity `limit`: a table whose m_max_elems is 0 never
\* grows, any other table can grow while the grown capacity is within limit.
RECURSIVE LargestMask(_, _, _)
LargestMask(c, capacity, limit) ==
    IF c.m_max_elems = 0 \/ capacity * c.GROWTH_FACTOR > limit
    THEN capacity - 1
    ELSE LargestMask(c, capacity * c.GROWTH_FACTOR, limit)

\* Hash values matter only through hasher & m_capacity_dec, so the hashers of
\* the model are the functions into 0..mask, mask the largest m_capacity_dec
\* of the table.  Keys carry no meaning to the map beyond their hash and
\* their equality, so they are numbered in the order of their hash values.
Hashers(keys, mask) ==
    { h \in [keys -> 0..mask] : \A j, k \in keys : j < k => h[j] <= h[k] }

NoCall ==
    [op |-> "none", key |-> 0, value |-> 0, first |-> 0, second |-> FALSE,
     count |-> 0, arg |-> Raw, undestroyed |-> 0]

\* the state after unordered_map(lf, ic, gf), for some hasher over `keys`
Constructed(lf, ic, gf, keys, limit) ==
    LET c == Construct(lf, ic, gf)
    IN  /\ LOAD_FACTOR = c.LOAD_FACTOR
        /\ INITIAL_CAPACITY = c.INITIAL_CAPACITY
        /\ GROWTH_FACTOR = c.GROWTH_FACTOR
        /\ hasher \in Hashers(keys, LargestMask(c, c.m_capacity, limit))
        /\ m_capacity = c.m_capacity
        /\ m_capacity_dec = c.m_capacity_dec
        /\ m_max_elems = c.m_max_elems
        /\ m_size = c.m_size
        /\ m_info_bucket = c.m_info_bucket
        /\ m_bucket = c.m_bucket
        /\ call = NoCall

\* Spec: every load factor of LoadFactors, every requested capacity and
\* growth factor for which the table and its first growth fit MaxCapacity
Init ==
    \E lf \in LoadFactors, ic \in 0..MaxCapacity, gf \in 0..MaxCapacity :
        /\ closestPowerOfTwo(ic) \in Capacities
        /\ 2 * closestPowerOfTwo(gf) \in Capacities
        /\ Constructed(lf, ic, gf, 1..MaxKey, MaxCapacity)

\* The caller makes a call when no result is pending, and makes no further
\* call once m_size has passed the capacity by more than MaxOverflow.
Callable == call.op = "none" /\ m_size <= m_capacity + MaxOverflow

\* the members of *this after a member function returned t
Becomes(t) ==
    /\ m_capacity' = t.m_capacity
    /\ m_capacity_dec' = t.m_capacity_dec
    /\ m_max_elems' = t.m_max_elems
    /\ m_size' = t.m_size
    /\ m_info_bucket' = t.m_info_bucket
    /\ m_bucket' = t.m_bucket
    /\ UNCHANGED config

\* insert(value_type(k, v)); the call is made when the table stays within
\* the capacity `limit`
Insert(k, v, limit) ==
    /\ Callable
    /\ \E r \in {insert(This, value_type(k, v))} :
           /\ r.t.m_capacity <= limit
           /\ Becomes(r.t)
           /\ call' = [op |-> "insert", key |-> k, value |-> v, first |-> r.first,
                       second |-> r.second, count |-> 0, arg |-> r.arg,
                       undestroyed |-> r.undestroyed]

\* operator[](k): insert(value_type(key, mapped_type())).first->second
Index(k, limit) ==
    /\ Callable
    /\ \E r \in {insert(This, value_type(k, 0))} :
           /\ r.t.m_capacity <= limit
           /\ Becomes(r.t)
           /\ call' = [op |-> "index", key |-> k, value |-> 0, first |-> r.first,
                       second |-> r.second, count |-> 0, arg |-> r.arg,
                       undestroyed |-> r.undestroyed]

\* A write through the reference operator[] returned, made before any other
\* call: ref = v.  The reference is insert(...).first->second; when insert
\* returned end(), whose m_value_ptr is nullptr, the write is undefined: it
\* is lost, or it lands on the value of some slot of the buffer.
Assign(v) ==
    /\ call.op = "index"
    /\ IF call.first # end(This)
       THEN m_bucket' = [m_bucket EXCEPT ![call.first].second = v]
       ELSE \/ m_bucket' = m_bucket
            \/ \E p \in 0..(m_capacity - 1) :
                  m_bucket' = [m_bucket EXCEPT ![p].second = v]
    /\ call' = [call EXCEPT !.op = "assign", !.value = v]
    /\ UNCHANGED <<config, m_capacity, m_capacity_dec, m_max_elems, m_size,
                   m_info_bucket>>

\* erase(k); first is the local iter, the result of find(key)
Erase(k) ==
    /\ Callable
    /\ \E r \in {erase(This, k)} :
           /\ Becomes(r.t)
           /\ call' = [op |-> "erase", key |-> k, value |-> 0,
                       first |-> find(This, k), second |-> FALSE,
                       count |-> r.count, arg |-> Raw,
                undestroyed |-> 0]

\* a fault for testing C15: a find that frees the slot of the key it found
Find_Freeing(k) ==
    /\ Callable
    /\ Becomes(IF find(This, k) = end(This) THEN This
               ELSE Destroy(This, find(This, k)))
    /\ call' = [op |-> "find", key |-> k, value |-> 0, first |-> find(This, k),
                second |-> FALSE, count |-> 0, arg |-> Raw,
                undestroyed |-> 0]

\* find(k)
Find(k) ==
    /\ Callable
    /\ call' = [op |-> "find", key |-> k, value |-> 0, first |-> find(This, k),
                second |-> FALSE, count |-> 0, arg |-> Raw,
                undestroyed |-> 0]
    /\ UNCHANGED <<config, table>>

\* the caller has taken the result of the last call
Return ==
    /\ call.op # "none"
    /\ call' = NoCall
    /\ UNCHANGED <<config, table>>

Next ==
    \/ \E k \in Keys, v \in Values : Insert(k, v, MaxCapacity)
    \/ \E k \in Keys : Index(k, MaxCapacity)
    \/ \E v \in Values : Assign(v)
    \/ \E k \in Keys : Erase(k)
    \/ \E k \in Keys : Find(k)
    \/ Return

Spec == Init /\ [][Next]_vars

\* SpecWide: one key more than Spec, in a table constructed with the largest
\* capacity of Spec and a load factor below 1, which grows once more, so
\* that a run of four pairs can form; the calls are insert with the value
\* mapped_type() and erase.
WideCapacity == LargestCapacity * closestPowerOfTwo(0)

InitWide ==
    \E lf \in { f \in LoadFactors : f.num < f.den } :
        Constructed(lf, LargestCapacity, 0, 1..(MaxKey + 1), WideCapacity)

NextWide ==
    \/ \E k \in Keys : Insert(k, 0, WideCapacity)
    \/ \E k \in Keys : Erase(k)
    \/ Return

SpecWide == InitWide /\ [][NextWide]_vars

\* SpecPow: closestPowerOfTwo on requests from the whole range of size_type,
\* next to tables that are constructed as in Spec and grow by insert.
\* The requests: 0, the powers of two, and the numbers with two one-bits of
\* which the lower is bit 0 or the bit next to the higher; none above 2^63,
\* the largest power of two of size_type.
Requests ==
    {{}} \cup { {b} : b \in SizeBitPositions }
         \cup { {b, 0} : b \in 1..(SizeBits - 2) }
         \cup { {b, b - 1} : b \in 1..(SizeBits - 2) }

\* closestPowerOfTwo(num), a static member function, called before the first
\* pair is inserted
ClosestPowerOfTwo(bits) ==
    /\ Callable
    /\ m_size = 0
    /\ call' = [NoCall EXCEPT !.op = "closestPowerOfTwo", !.key = bits,
                              !.first = closestPowerOfTwoBits(bits)]
    /\ UNCHANGED <<config, table>>

NextPow ==
    \/ \E bits \in Requests : ClosestPowerOfTwo(bits)
    \/ \E k \in Keys : Insert(k, 0, MaxCapacity)
    \/ Return

SpecPow == Init /\ [][NextPow]_vars

\* SpecScenario: the program
\*     unordered_map m(0.75f, 2, 2);
\*     m.insert({1, "a"}); m.insert({2, "b"}); m.insert({3, "c"});
\*     m.find(k) for keys k of the program, in any order, any number of times
\* under every hasher, as far as the table can tell hashers apart: by the
\* hash values trimmed to the capacity after two growths.  The values 11, 12
\* and 13 stand for "a", "b" and "c".
Scenario == << value_type(1, 11), value_type(2, 12), value_type(3, 13) >>

ScenarioCapacity(c) == c.m_capacity * c.GROWTH_FACTOR * c.GROWTH_FACTOR

InitScenario ==
    LET c == Construct([num |-> 3, den |-> 4], 2, 2)
    IN  /\ LOAD_FACTOR = c.LOAD_FACTOR
        /\ INITIAL_CAPACITY = c.INITIAL_CAPACITY
        /\ GROWTH_FACTOR = c.GROWTH_FACTOR
        /\ hasher \in [DOMAIN Scenario -> 0..(ScenarioCapacity(c) - 1)]
        /\ m_capacity = c.m_capacity
        /\ m_capacity_dec = c.m_capacity_dec
        /\ m_max_elems = c.m_max_elems
        /\ m_size = c.m_size
        /\ m_info_bucket = c.m_info_bucket
        /\ m_bucket = c.m_bucket
        /\ call = NoCall

\* the i-th insert of the program: the call follows the (i-1)-th insert
ScenarioInsert(i) ==
    /\ call.op = (IF i = 1 THEN "none" ELSE "insert")
    /\ call.key = (IF i = 1 THEN 0 ELSE Scenario[i - 1].first)
    /\ \E r \in {insert(This, Scenario[i])} :
           /\ Becomes(r.t)
           /\ call' = [op |-> "insert", key |-> Scenario[i].first,
                       value |-> Scenario[i].second, first |-> r.first,
                       second |-> r.second, count |-> 0, arg |-> r.arg,
                       undestroyed |-> r.undestroyed]

\* the program has made its last insert
ScenarioDone ==
    \/ call.op = "insert" /\ call.key = Scenario[Len(Scenario)].first
    \/ call.op = "find"

\* a find of the program: the calls follow the last insert
ScenarioFind(k) ==
    /\ ScenarioDone
    /\ call' = [op |-> "find", key |-> k, value |-> 0, first |-> find(This, k),
                second |-> FALSE, count |-> 0, arg |-> Raw,
                undestroyed |-> 0]
    /\ UNCHANGED <<config, table>>

NextScenario ==
    \/ \E i \in DOMAIN Scenario : ScenarioInsert(i)
    \/ \E k \in Keys : ScenarioFind(k)

SpecScenario == InitScenario /\ [][NextScenario]_vars

\* SpecTag: a table of twice as many slots as an info byte has values, with
\* load factor 3/4 and a hasher that gives every key the same hash value, the
\* first or the last slot; the keys 1, 2, ... are inserted in turn, each
\* looked up after its insert, up to one key more than an info byte has
\* values.
TagCapacity == 2 * InfoValues

TagKeys == 1..(InfoValues + 1)

InitTag ==
    LET c == Construct([num |-> 3, den |-> 4], TagCapacity, 0)
    IN  /\ LOAD_FACTOR = c.LOAD_FACTOR
        /\ INITIAL_CAPACITY = c.INITIAL_CAPACITY
        /\ GROWTH_FACTOR = c.GROWTH_FACTOR
        /\ \E h \in {0, c.m_capacity_dec} : hasher = [k \in TagKeys |-> h]
        /\ m_capacity = c.m_capacity
        /\ m_capacity_dec = c.m_capacity_dec
        /\ m_max_elems = c.m_max_elems
        /\ m_size = c.m_size
        /\ m_info_bucket = c.m_info_bucket
        /\ m_bucket = c.m_bucket
        /\ call = NoCall

NextTag ==
    \/ \E k \in Keys : k = m_size + 1 /\ Insert(k, 0, m_capacity)
    \/ \E k \in Keys : k = m_size /\ Find(k)
    \/ Return

SpecTag == InitTag /\ [][NextTag]_vars

\* ~unordered_map(): the pair of every slot whose info byte is not
\* uint8_t(-1) is destroyed, then the buffer is deallocated; the buckets
\* afterwards show what the deallocated buffer held
Destruct ==
    /\ Callable
    /\ m_bucket' = [p \in DOMAIN m_bucket |->
                      IF m_info_bucket[p] # EMPTY THEN Raw ELSE m_bucket[p]]
    /\ call' = [NoCall EXCEPT !.op = "~unordered_map"]
    /\ UNCHANGED <<config, m_capacity, m_capacity_dec, m_max_elems, m_size,
                   m_info_bucket>>

\* SpecLife: the tables of Spec from construction to destruction; the calls
\* are insert with the value mapped_type() and erase, and no call follows
\* the destructor.
NextLife ==
    \/ \E k \in Keys : Insert(k, 0, MaxCapacity)
    \/ \E k \in Keys : Erase(k)
    \/ call.op # "~unordered_map" /\ Return
    \/ Destruct

SpecLife == Init /\ [][NextLife]_vars

\* ---- vocabulary of the properties ----------------------------------------
\* the real slots, without the end marker
Slots(t) == 0..(t.m_capacity - 1)

\* the slots whose info byte is not uint8_t(-1)
Occupied(t) == { p \in Slots(t) : t.m_info_bucket[p] # EMPTY }

\* key k is stored: some occupied slot holds a pair with that key
Stored(t, k) == \E p \in Occupied(t) : t.m_bucket[p].first = k

\* what dereferencing find(k) yields; Raw stands for "find returned end()"
Lookup(t, k) ==
    LET it == find(t, k)
    IN  IF it \in Occupied(t) THEN t.m_bucket[it] ELSE Raw

\* the positions an iteration from begin() dereferences before it reaches
\* end(); an iterator that left the buffer ends the walk
RECURSIVE Walk(_, _)
Walk(t, it) ==
    IF it >= end(t) THEN <<>> ELSE <<it>> \o Walk(t, IterInc(t, it))

Traversal(t) == Walk(t, begin(t))

C2_InsertIdempotent ==
    [][ \A k \in Keys :
          (call'.op = "insert" /\ call'.key = k /\ Stored(This, k))
             => /\ ~call'.second
                /\ m_size' = m_size
                /\ Lookup(This', k) = Lookup(This, k)
                /\ m_info_bucket' = m_info_bucket
                /\ m_bucket' = m_bucket
                /\ m_capacity' = m_capacity ]_vars

\* ---- C3 ------------------------------------------------------------------
\* C3 (successful erase): erase(k) with k stored returns 1, takes exactly one
\* off m_size, leaves k not found, and every other stored key is found with
\* the value it had.
C3_EraseStored ==
    [][ \A k \in Keys :
          (call'.op = "erase" /\ call'.key = k /\ Stored(This, k))
             => /\ call'.count = 1
                /\ m_size' = m_size - 1
                /\ find(This', k) = end(This')
                /\ ~Stored(This', k)
                /\ \A j \in Keys \ {k} :
                      Stored(This, j)
                         => /\ Lookup(This', j).first = j
                            /\ Lookup(This', j) = Lookup(This, j) ]_vars

\* ---- C4 ------------------------------------------------------------------
\* C4 (erase of an absent key): erase(k) with k not stored returns 0 and
\* leaves every info byte, every pair, m_size and m_capacity as they were.
C4_EraseAbsent ==
    [][ \A k \in Keys :
          (call'.op = "erase" /\ call'.key = k /\ ~Stored(This, k))
             => /\ call'.count = 0
                /\ m_info_bucket' = m_info_bucket
                /\ m_bucket' = m_bucket
                /\ m_size' = m_size
                /\ m_capacity' = m_capacity ]_vars

\* an erase of an absent key whose probe passed stored pairs
C4_Witness ==
    /\ call.op = "erase" /\ call.count = 0
    /\ m_size >= 2
    /\ m_info_bucket[hashAndTrim(This, call.key)] # EMPTY

\* ---- C5 ------------------------------------------------------------------
\* C5 (home position): every occupied slot p with info byte d holds a key
\* whose hash position, hash & (capacity - 1), is (p - d) mod capacity.
C5_HomePosition ==
    \A p \in Occupied(This) :
        hashAndTrim(This, m_bucket[p].first)
            = (p + InfoValues * m_capacity - m_info_bucket[p]) % m_capacity

\* a table that has grown and holds a pair that wrapped around the end of
\* the array: its info byte is larger than its position
C5_Witness ==
    /\ m_capacity > INITIAL_CAPACITY
    /\ call.op \in {"insert", "index", "erase"}
    /\ \E p \in Occupied(This) : m_info_bucket[p] > p

\* ---- C6 ------------------------------------------------------------------
\* the home slots of the stored keys
HomeSlots(t) == { hashAndTrim(t, t.m_bucket[p].first) : p \in Occupied(t) }

\* the slots a forward scan visits from slot q on, until an empty slot, a
\* slot with info byte 0, or the end of the array
RECURSIVE ScanFrom(_, _)
ScanFrom(t, q) ==
    IF q >= t.m_capacity \/ t.m_info_bucket[q] \in {EMPTY, 0}
    THEN {}
    ELSE {q} \cup ScanFrom(t, q + 1)

C7_LoadBound == m_size <= m_max_elems

\* ---- C8 ------------------------------------------------------------------
\* C8 (growth trigger): an insert or operator[] that stores a new key and
\* brings m_size to m_max_elems grows the table once before it returns: the
\* capacity is multiplied by GROWTH_FACTOR, m_max_elems and m_capacity_dec
\* follow the new capacity, m_size counts the pairs as before the growth, and
\* every key stored before is found with the value it had.
C8_GrowthTrigger ==
    [][ (call'.op \in {"insert", "index"} /\ call'.second /\ m_size + 1 = m_max_elems)
           => /\ m_capacity' = m_capacity * GROWTH_FACTOR
              /\ m_capacity_dec' = m_capacity' - 1
              /\ m_max_elems' = MaxElems(m_capacity', LOAD_FACTOR)
              /\ m_size' = m_size + 1
              /\ Lookup(This', call'.key) = value_type(call'.key, call'.value)
              /\ \A j \in Keys :
                    Stored(This, j)
                       => /\ Lookup(This', j).first = j
                          /\ Lookup(This', j) = Lookup(This, j) ]_vars

\* a growth that re-inserted three pairs, one of them away from its home slot
C8_Witness ==
    /\ call.op = "insert" /\ call.second
    /\ m_capacity = INITIAL_CAPACITY * GROWTH_FACTOR
    /\ m_size = MaxElems(INITIAL_CAPACITY, LOAD_FACTOR)
    /\ m_size >= 3
    /\ \E p \in Occupied(This) : m_info_bucket[p] >= 1

\* ---- C9 ------------------------------------------------------------------
\* C9 (iteration completeness): the iteration from begin() dereferences
\* exactly size() positions before it reaches end(), each an occupied slot,
\* each occupied slot once; begin() == end() exactly when empty(); the info
\* byte at end() is the end marker, never uint8_t(-1).
C9_Iteration ==
    LET walk == Traversal(This)
    IN  /\ Len(walk) = size(This)
        /\ \A i \in 1..Len(walk) : walk[i] \in Occupied(This)
        /\ \A i, j \in 1..Len(walk) : i < j => walk[i] < walk[j]
        /\ \A p \in Occupied(This) : \E i \in 1..Len(walk) : walk[i] = p
        /\ (begin(This) = end(This)) <=> empty(This)
        /\ m_info_bucket[m_capacity] = END_INFO

\* ---- C10 -----------------------------------------------------------------
\* C10 (insert result): insert(k, v) returns inserted = true exactly when k
\* was not stored before, and the returned iterator is at the slot that holds
\* key k when the call returns.
C10_InsertResult ==
    [][ \A k \in Keys :
          (call'.op = "insert" /\ call'.key = k)
             => /\ call'.second <=> ~Stored(This, k)
                /\ call'.first \in Occupied(This')
                /\ m_bucket'[call'.first].first = k ]_vars

\* ---- C11 -----------------------------------------------------------------
\* C11 (index access): operator[](k) on an absent key stores k with the
\* value mapped_type(), adds one to m_size and returns a reference into the
\* slot that holds k; on a stored key it returns a reference into the slot
\* that holds k and changes neither m_size nor any slot; after a write of v
\* through the returned reference, find(k) yields (k, v).
C11_IndexAccess ==
    [][ \A k \in Keys :
          /\ (call'.op = "index" /\ call'.key = k /\ ~Stored(This, k))
                => /\ m_size' = m_size + 1
                   /\ Lookup(This', k) = value_type(k, 0)
                   /\ call'.first \in Occupied(This')
                   /\ m_bucket'[call'.first].first = k
          /\ (call'.op = "index" /\ call'.key = k /\ Stored(This, k))
                => /\ m_size' = m_size
                   /\ m_info_bucket' = m_info_bucket
                   /\ m_bucket' = m_bucket
                   /\ call'.first \in Occupied(This')
                   /\ m_bucket'[call'.first].first = k
          /\ (call'.op = "assign" /\ call'.key = k)
                => Lookup(This', k) = value_type(k, call'.value) ]_vars

\* ---- C12 -----------------------------------------------------------------
\* the smallest power of two that is >= the number and >= 2
SmallestPowerOfTwoFrom(bits) ==
    IF bits \subseteq {0} THEN {1}
    ELSE IF Cardinality(bits) = 1 THEN bits
    ELSE {1 + CHOOSE b \in bits : \A c \in bits : c <= b}

IsPowerOfTwo(n) == \E b \in 1..(SizeBits - 1) : b < 31 /\ n = 2^b

\* C12 (capacity is a power of two): closestPowerOfTwo, which the
\* constructor applies to the requested initial capacity and to the requested
\* growth factor, returns the smallest power of two >= the request and >= 2;
\* the capacity and the growth factor are powers of two >= 2, and
\* m_capacity_dec == m_capacity - 1, after construction and after any number
\* of growths.
C12_PowerOfTwo ==
    /\ call.op = "closestPowerOfTwo"
          => call.first = SmallestPowerOfTwoFrom(call.key)
    /\ IsPowerOfTwo(INITIAL_CAPACITY)
    /\ IsPowerOfTwo(GROWTH_FACTOR)
    /\ IsPowerOfTwo(m_capacity)
    /\ m_capacity_dec = m_capacity - 1

\* ---- C13 -----------------------------------------------------------------
\* C13 (concrete scenario): the table constructed with load factor 0.75,
\* initial capacity 2 and growth factor 2 has, after insert(1, "a"),
\* insert(2, "b") and insert(3, "c") in that order, size 3 and a capacity
\* above the initial one, find(1), find(2) and find(3) yield the pairs with
\* the values "a", "b" and "c", and that is what a find call returns.
C13_Scenario ==
    ScenarioDone =>
        /\ size(This) = Len(Scenario)
        /\ m_capacity > INITIAL_CAPACITY
        /\ \A i \in DOMAIN Scenario :
              Lookup(This, Scenario[i].first) = Scenario[i]
        /\ call.op = "find" =>
              /\ call.first \in Occupied(This)
              /\ m_bucket[call.first] = Scenario[call.key]

\* the program has found key 3, all three keys having the same hash value,
\* in a table that has grown twice
C13_Witness ==
    /\ call.op = "find"
    /\ call.key = Scenario[Len(Scenario)].first
    /\ call.first \in Occupied(This)
    /\ \A j, k \in Keys : hasher[j] = hasher[k]
    /\ m_capacity = INITIAL_CAPACITY * GROWTH_FACTOR * GROWTH_FACTOR

\* ---- C14 -----------------------------------------------------------------
\* the slots from p on, cyclically, through the last slot of the run that
\* follows p: the run ends before a free slot or a slot with info byte 0, and
\* has at most n slots after p
RECURSIVE RunFrom(_, _, _)
RunFrom(t, p, n) ==
    IF n = 0 \/ t.m_info_bucket[NextSlot(t, p)] \in {0, EMPTY}
    THEN {p}
    ELSE {p} \cup RunFrom(t, NextSlot(t, p), n - 1)

\* the slots erase(k) may modify: none when k is not found
ErasedRange(t, k) ==
    IF find(t, k) = end(t) THEN {} ELSE RunFrom(t, find(t, k), t.m_capacity - 1)

\* C14 (reference stability across erases): erase(k) keeps the buffer, and
\* modifies only slots on the cyclic range from the slot that held k through
\* the last slot of the run it shifts back; every slot outside the range
\* keeps its info byte and its pair, so that an iterator to it denotes the
\* same key and value after the erase.
C14_EraseFrame ==
    [][ call'.op = "erase" =>
          /\ m_capacity' = m_capacity
          /\ \A q \in Slots(This) \ ErasedRange(This, call'.key) :
                /\ m_info_bucket'[q] = m_info_bucket[q]
                /\ m_bucket'[q] = m_bucket[q]
                /\ q \in Occupied(This) => Iter(This', q) = Iter(This, q) ]_vars

\* an erase that shifted a pair back into the slot that held k, next to an
\* occupied slot that follows the freed one
C14_Witness ==
    /\ call.op = "erase" /\ call.count = 1
    /\ call.first \in Occupied(This)
    /\ \E q \in Slots(This) \ Occupied(This) :
          /\ q # call.first
          /\ NextSlot(This, q) \in Occupied(This)
          /\ NextSlot(This, q) # call.first

C16_BoundedWork ==
    [][ /\ call'.op = "find" => FindPasses(This, call'.key) <= m_capacity
        /\ call'.op \in {"insert", "index"} =>
              /\ insert(This, value_type(call'.key, call'.value)).bounded
              /\ m_capacity' # m_capacity =>
                    /\ \A p \in Occupied(This) :
                          Cardinality({ q \in Occupied(This') :
                                          m_bucket'[q] = m_bucket[p] }) = 1
                    /\ Cardinality(Occupied(This'))
                          = Cardinality(Occupied(This)) + 1
        /\ call'.op = "erase" =>
              /\ FindPasses(This, call'.key) <= m_capacity
              /\ erase(This, call'.key).passes <= m_capacity ]_vars

\* ---- C17 -----------------------------------------------------------------
\* what the finds of a table say: for each key the pair find yields, Raw for
\* a key find answers with end()
Answers(t) == [k \in Keys |-> Lookup(t, k)]

\* the reference map after insert(k, v): insert-if-absent
RefInsert(ref, k, v) ==
    IF ref[k] = Raw THEN [ref EXCEPT ![k] = value_type(k, v)] ELSE ref

\* the reference map after erase(k): remove
RefErase(ref, k) == [ref EXCEPT ![k] = Raw]

\* the reference map after a write through the reference operator[](k) gave
RefAssign(ref, k, v) == [ref EXCEPT ![k] = value_type(k, v)]

\* C17 (agreement with a reference map): the finds of the constructed table
\* answer end() for every key, and every insert, operator[], write through
\* the returned reference, and erase changes the answers of find as the same
\* call changes a reference map (insert = insert-if-absent, erase = remove),
\* find changing nothing; a find answers with the pair of the key asked for,
\* and never with end() for a key that a slot holds.
C17_ReferenceMap ==
    /\ Answers(This) = [k \in Keys |-> Raw]
    /\ [][ /\ call'.op \in {"insert", "index"} =>
               Answers(This') = RefInsert(Answers(This), call'.key, call'.value)
           /\ call'.op = "assign" =>
               Answers(This') = RefAssign(Answers(This), call'.key, call'.value)
           /\ call'.op = "erase" =>
               Answers(This') = RefErase(Answers(This), call'.key)
           /\ call'.op = "find" =>
               /\ Answers(This') = Answers(This)
               /\ call'.first = find(This', call'.key)
           /\ \A k \in Keys :
                 /\ Lookup(This', k) # Raw => Lookup(This', k).first = k
                 /\ Stored(This', k) => Lookup(This', k) # Raw ]_vars

\* ---- C18 -----------------------------------------------------------------
\* C18 (no displacement overflow): while m_size is within m_max_elems, under
\* any hasher, an insert stores no info byte >= EMPTY and its one-byte
\* distance counter does not wrap: the loop makes at most as many passes as
\* an info byte has values, the pair it stored is in a slot whose info byte
\* is below EMPTY, and the slots that count as occupied are as many as
\* m_size, none of the stored pairs being taken for a free slot.
C18_NoTagOverflow ==
    [][ (call'.op = "insert" /\ m_size' <= m_max_elems') =>
          /\ insert(This, value_type(call'.key, call'.value)).passes <= InfoValues
          /\ call'.second => Stored(This', call'.key)
          /\ \A p \in Slots(This') :
                m_bucket'[p] # Raw => m_info_bucket'[p] < EMPTY
          /\ Cardinality(Occupied(This')) = m_size' ]_vars

\* ---- C19 -----------------------------------------------------------------
\* C19 (entry lifetime): no buffer is deallocated while it holds a
\* constructed pair that was not destroyed, neither the previous buffer in a
\* growth nor the buffer of the table in its destructor, and no slot marked
\* EMPTY holds a constructed pair; so every pair constructed in a slot, by
\* insert, is destroyed once, by erase or by the destructor.
C19_EntryLifetime ==
    [][ /\ call'.op = "insert" => call'.undestroyed = 0
        /\ call'.op = "~unordered_map" => Live(This') = {}
        /\ \A p \in Slots(This') :
              m_info_bucket'[p] = EMPTY => m_bucket'[p] = Raw ]_vars

\* ---- C20 -----------------------------------------------------------------
\* C20 (insert by copy leaves the argument intact): when insert is called
\* with an lvalue, key_value_pair refers to the caller's pair, and that pair
\* has the same key and value when insert returns as when it was called,
\* whether the probe robbed residents or not.
C20_ArgumentIntact ==
    [][ call'.op = "insert" =>
          call'.arg = value_type(call'.key, call'.value) ]_vars

\* ---- C21 -----------------------------------------------------------------
\* the slot before p, cyclically: the last real slot comes before slot 0
PrevSlot(t, p) == (p + t.m_capacity - 1) % t.m_capacity

\* the slots from the hash position of the key in slot p up to p, cyclically
RECURSIVE HomeToSlot(_, _, _)
HomeToSlot(t, p, n) ==
    IF n = 0 \/ p = hashAndTrim(t, t.m_bucket[p].first)
    THEN {p}
    ELSE {p} \cup HomeToSlot(t, PrevSlot(t, p), n - 1)

\* C21 (adjacency): after every call, for every occupied slot p with info
\* byte d >= 1, the slot before it, cyclically, is occupied and its info
\* byte is at least d - 1; and no stored key has a free slot between its
\* hash position and its slot.
C21_Adjacency ==
    /\ \A p \in Occupied(This) :
          m_info_bucket[p] >= 1 =>
              /\ PrevSlot(This, p) \in Occupied(This)
              /\ m_info_bucket[PrevSlot(This, p)] >= m_info_bucket[p] - 1
    /\ \A p \in Occupied(This) :
          HomeToSlot(This, p, m_capacity - 1) \subseteq Occupied(This)

\* ---- C22 -----------------------------------------------------------------
\* C22 (size and key uniqueness): in every state size() is the number of
\* real slots whose info byte is not EMPTY, no two occupied slots hold equal
\* keys, and empty() is true exactly when size() is 0.
C22_SizeAndKeys ==
    /\ size(This) = Cardinality(Occupied(This))
    /\ \A p, q \in Occupied(This) :
          m_bucket[p].first = m_bucket[q].first => p = q
    /\ empty(This) <=> size(This) = 0

====
